---- MODULE Spec2Model ----
(***************************************************************************)
(* The humanoid relay server: createHumanoidServer (the orchestrator link: *)
(* register / heartbeat loop, webhook, close) and WebSocketManager (the    *)
(* connection registry: accept, inbound frames, broadcast, sweep, pulse).  *)
(*                                                                         *)
(* Time.  The code compares differences of Date values with its interval  *)
(* constants and arms timers with them.  The model keeps, for every Date   *)
(* the code stores, its age (now - date) and, for every timer, the time    *)
(* left.  One Advance step lets TimeStep milliseconds pass; TimeStep is    *)
(* the greatest common divisor of the program's intervals, so every timer  *)
(* fires exactly when it is due.  An age stops growing once it is past the *)
(* only threshold the code compares it with.                               *)
(***************************************************************************)
EXTENDS Integers, Sequences, FiniteSets, TLC

\* ---------------------------------------------------------------- constants
HEARTBEAT_INTERVAL == 30000

AXIOS_TIMEOUT == 30000

WS_HEARTBEAT_INTERVAL == 40000

CONNECTION_TIMEOUT == 80000

\* HEARTBEAT_INTERVAL * 3: the staleness threshold of the orchestrator link
STALE == HEARTBEAT_INTERVAL * 3

\* ------------------------------------------------------------------- bounds
\* calls of listen(); each arms one timer, so at most as many tick loops run
MaxListen == 2

\* sockets the WebSocket server hands to the 'connection' handler
MaxConn == 2

\* inbound frames
MaxFrames == 2

RECURSIVE GCD(_, _)
GCD(a, b) == IF b = 0 THEN a ELSE GCD(b, a % b)

TimeStep == GCD(GCD(HEARTBEAT_INTERVAL, AXIOS_TIMEOUT),
                GCD(WS_HEARTBEAT_INTERVAL, CONNECTION_TIMEOUT))

\* an age after TimeStep more: it saturates at the first value past `limit`
Bump(age, limit) == IF age > limit THEN age ELSE age + TimeStep

NULL == 0

Slots == 1..MaxListen

ClientIds == 1..MaxConn

VARIABLES
  \* createHumanoidServer
  isRegistered,        \* let isRegistered
  lastHeartbeatAge,    \* now - lastHeartbeatTime
  heartbeatInterval,   \* let heartbeatInterval: NULL or the slot of the timer it refers to
  timers,              \* per slot: a pending setTimeout or its running async callback
  listens,             \* how many times listen() has been called
  closed,              \* close() has been called
  exited,              \* process.exit(0) has run
  \* WebSocketManager
  wsTimer,             \* this.heartbeatInterval: time left of the setInterval, -1 once cleared
  clients,             \* this.clients: the Map's entries in insertion order
  readyState,          \* ws.readyState of every socket
  pending,             \* 'message' handlers suspended at await onSendToOrchestrator
  pulseCbs,            \* ws.send('heartbeat', cb) callbacks not yet called
  \* history
  op,                  \* the last step taken and what it did
  sinceAck,            \* while Registered and before close(): time since the last
                       \* acknowledgment or heartbeat success
  ackFresh,            \* an acknowledgment arrived before close() and no tick has
                       \* run since
  issued,              \* ids generateClientId has returned
  removed,             \* ids removed again from this.clients
  frames,              \* the inbound frames other than the marker, in arrival order
  fwdLog,              \* frames handed to onSendToOrchestrator, in call order
  bcastLog             \* frames whose RelayMessage was broadcast, in order

linkVars == <<isRegistered, lastHeartbeatAge, heartbeatInterval, timers, listens>>

wsVars == <<clients, readyState, pending, pulseCbs>>

histVars == <<sinceAck, ackFresh, issued, removed, frames, fwdLog, bcastLog>>

vars == <<isRegistered, lastHeartbeatAge, heartbeatInterval, timers, listens,
          closed, exited, wsTimer, clients, readyState, pending, pulseCbs,
          op, sinceAck, ackFresh, issued, removed, frames, fwdLog, bcastLog>>

\* ------------------------------------------------------- orchestrator link
\* server.listen() has been called: the HTTP server takes requests
listening == listens > 0

FreeSlot == [st |-> "free", t |-> 0, type |-> "none"]

\* a setTimeout with `left` to go
Waiting(left) == [st |-> "wait", t |-> left, type |-> "none"]

\* the timer callback suspended at `await axios(...)`, t the time since the call
InFlight(type) == [st |-> "call", t |-> 0, type |-> type]

\* clearTimeout(h) / clearInterval(h): a no-op on null and on a timer that has fired
ClearTimeout(tm, h) ==
  IF h # NULL /\ tm[h].st = "wait" THEN [tm EXCEPT ![h] = FreeSlot] ELSE tm

\* setTimeout(..., HEARTBEAT_INTERVAL) armed for slot s
RunHeartbeat(tm, s) == [tm EXCEPT ![s] = Waiting(HEARTBEAT_INTERVAL)]

IsStale_AtThreshold(reg, age) == reg /\ age >= STALE

\* isRegistered && now - lastHeartbeatTime > HEARTBEAT_INTERVAL * 3
IsStale(reg, age) == reg /\ age > STALE

RegisteredAfterCall_OnRegister(reg, type, ok) == reg \/ (type = "register" /\ ok)

\* isRegistered once the awaited call has settled: neither branch assigns it
RegisteredAfterCall(reg, type, ok) == reg

StampAfterCall_Always(age, type, ok) == 0

\* lastHeartbeatTime = new Date() after a heartbeat call that resolved
StampAfterCall(age, type, ok) == IF type = "heartbeat" /\ ok THEN 0 ELSE age

CallSettled_NoFinally(tm, s, ok) ==
  IF ok THEN RunHeartbeat(tm, s) ELSE [tm EXCEPT ![s] = FreeSlot]

\* try / catch (console.error) / finally { runHeartbeat() }
CallSettled(tm, s, ok) == RunHeartbeat(tm, s)

Init ==
  /\ isRegistered = FALSE
  /\ lastHeartbeatAge = 0
  /\ heartbeatInterval = NULL
  /\ timers = [s \in Slots |-> FreeSlot]
  /\ listens = 0
  /\ closed = FALSE
  /\ exited = FALSE
  /\ wsTimer = WS_HEARTBEAT_INTERVAL
  /\ clients = <<>>
  /\ readyState = [c \in ClientIds |-> "NONE"]
  /\ pending = {}
  /\ pulseCbs = {}
  /\ op = [name |-> "Init"]
  /\ sinceAck = STALE + TimeStep
  /\ ackFresh = FALSE
  /\ issued = {}
  /\ removed = {}
  /\ frames = <<>>
  /\ fwdLog = <<>>
  /\ bcastLog = <<>>

\* listen(...): clearTimeout(heartbeatInterval); runHeartbeat(); server.listen(...)
\* (main calls it at start-up; the server is not started again after close())
Listen ==
  /\ ~exited
  /\ ~closed
  /\ listens < MaxListen
  /\ LET cleared == ClearTimeout(timers, heartbeatInterval)
         free == {s \in Slots : cleared[s].st = "free"}
     IN /\ free # {}
        /\ LET s == CHOOSE x \in free : \A y \in free : x <= y
           IN /\ timers' = RunHeartbeat(cleared, s)
              /\ heartbeatInterval' = s
  /\ listens' = listens + 1
  /\ op' = [name |-> "Listen"]
  /\ UNCHANGED <<isRegistered, lastHeartbeatAge, closed, exited, wsTimer>>
  /\ UNCHANGED wsVars
  /\ UNCHANGED histVars

\* the timer callback up to its await: the staleness check, then the call is sent
LinkTick(s) ==
  /\ ~exited
  /\ timers[s].st = "wait"
  /\ timers[s].t = 0
  /\ LET stale == IsStale(isRegistered, lastHeartbeatAge)
         reg == isRegistered /\ ~stale
         type == IF reg THEN "heartbeat" ELSE "register"
     IN /\ isRegistered' = reg
        /\ timers' = [timers EXCEPT ![s] = InFlight(type)]
        /\ op' = [name |-> "LinkTick", slot |-> s, type |-> type,
                  was |-> isRegistered, age |-> lastHeartbeatAge,
                  ack |-> IF ackFresh THEN sinceAck ELSE -1,
                  since |-> sinceAck]
  /\ ackFresh' = FALSE
  /\ sinceAck' = IF isRegistered' /\ ~closed THEN sinceAck ELSE STALE + TimeStep
  /\ UNCHANGED <<lastHeartbeatAge, heartbeatInterval, listens, closed, exited, wsTimer>>
  /\ UNCHANGED wsVars
  /\ UNCHANGED <<issued, removed, frames, fwdLog, bcastLog>>

\* the awaited axios call settles (ok: resolved; ~ok: rejected or timed out), then
\* the rest of the callback runs: the stamp, catch, finally
LinkCallDone(s, ok) ==
  /\ ~exited
  /\ timers[s].st = "call"
  /\ LET type == timers[s].type
     IN /\ lastHeartbeatAge' = StampAfterCall(lastHeartbeatAge, type, ok)
        /\ isRegistered' = RegisteredAfterCall(isRegistered, type, ok)
        /\ sinceAck' = IF type = "heartbeat" /\ ok /\ isRegistered /\ ~closed
                       THEN 0 ELSE sinceAck
        /\ op' = [name |-> "LinkCallDone", slot |-> s, type |-> type, ok |-> ok]
  /\ timers' = CallSettled(timers, s, ok)
  /\ heartbeatInterval' = s
  /\ UNCHANGED <<listens, closed, exited, wsTimer>>
  /\ UNCHANGED wsVars
  /\ UNCHANGED <<ackFresh, issued, removed, frames, fwdLog, bcastLog>>

\* POST /webhook/orchestrator with body {cmd: 'registered'}
WebhookRegistered ==
  /\ ~exited
  /\ listening
  /\ isRegistered' = TRUE
  /\ sinceAck' = IF closed THEN sinceAck ELSE 0
  /\ ackFresh' = ~closed
  /\ op' = [name |-> "WebhookRegistered"]
  /\ UNCHANGED <<lastHeartbeatAge, heartbeatInterval, timers, listens, closed, exited, wsTimer>>
  /\ UNCHANGED wsVars
  /\ UNCHANGED <<issued, removed, frames, fwdLog, bcastLog>>

\* ------------------------------------------------------------ shutdown, time
\* ids of the tracked connections, in Map order
Ids(cl) == [i \in 1..Len(cl) |-> cl[i].id]

IdSet(cl) == {cl[i].id : i \in 1..Len(cl)}

WsClose_NoClear ==
  /\ wsTimer' = -1
  /\ readyState' = [c \in ClientIds |->
                      IF c \in IdSet(clients) /\ readyState[c] = "OPEN"
                      THEN "CLOSING" ELSE readyState[c]]
  /\ clients' = clients
  /\ removed' = removed

\* WebSocketManager.close(): clearInterval, ws.close() on every open client,
\* clients.clear(), wss.close()
WsClose ==
  /\ wsTimer' = -1
  /\ readyState' = [c \in ClientIds |->
                      IF c \in IdSet(clients) /\ readyState[c] = "OPEN"
                      THEN "CLOSING" ELSE readyState[c]]
  /\ clients' = <<>>
  /\ removed' = removed \cup IdSet(clients)

\* close(): clearInterval(heartbeatInterval); wsManager.close(); server.close(cb)
Close ==
  /\ ~exited
  /\ timers' = ClearTimeout(timers, heartbeatInterval)
  /\ WsClose
  /\ closed' = TRUE
  /\ op' = [name |-> "Close", again |-> closed,
            closedSockets |-> {c \in IdSet(clients) : readyState[c] = "OPEN"}]
  /\ UNCHANGED <<isRegistered, lastHeartbeatAge, heartbeatInterval, listens, exited>>
  /\ sinceAck' = STALE + TimeStep
  /\ ackFresh' = FALSE
  /\ UNCHANGED <<pending, pulseCbs>>
  /\ UNCHANGED <<issued, frames, fwdLog, bcastLog>>

\* the callback of server.close(): process.exit(0); the timers and the pending
\* callbacks of the process go with it
ProcessExit ==
  /\ closed
  /\ ~exited
  /\ exited' = TRUE
  /\ timers' = [s \in Slots |-> FreeSlot]
  /\ heartbeatInterval' = NULL
  /\ pending' = {}
  /\ pulseCbs' = {}
  /\ op' = [name |-> "ProcessExit"]
  /\ UNCHANGED <<isRegistered, lastHeartbeatAge, listens, closed, wsTimer>>
  /\ UNCHANGED <<clients, readyState>>
  /\ UNCHANGED histVars

\* TimeStep passes.  A timer that is due fires first, a call the axios timeout
\* has run out for is rejected first, and the callbacks of the ws.send calls of a
\* pulse have been called.
Advance ==
  /\ ~exited
  /\ pulseCbs = {}
  /\ \A s \in Slots : /\ ~(timers[s].st = "wait" /\ timers[s].t = 0)
                      /\ ~(timers[s].st = "call" /\ timers[s].t >= AXIOS_TIMEOUT)
  /\ wsTimer # 0
  /\ timers' = [s \in Slots |->
                  CASE timers[s].st = "wait" -> [timers[s] EXCEPT !.t = @ - TimeStep]
                    [] timers[s].st = "call" -> [timers[s] EXCEPT !.t = @ + TimeStep]
                    [] OTHER -> timers[s]]
  /\ lastHeartbeatAge' = Bump(lastHeartbeatAge, STALE)
  /\ sinceAck' = Bump(sinceAck, STALE)
  /\ wsTimer' = IF wsTimer > 0 THEN wsTimer - TimeStep ELSE wsTimer
  /\ clients' = [i \in 1..Len(clients) |->
                   [clients[i] EXCEPT !.lastHeartbeat = Bump(@, CONNECTION_TIMEOUT)]]
  /\ op' = [name |-> "Advance"]
  /\ UNCHANGED <<isRegistered, heartbeatInterval, listens, closed, exited>>
  /\ UNCHANGED <<readyState, pending, pulseCbs>>
  /\ UNCHANGED <<ackFresh, issued, removed, frames, fwdLog, bcastLog>>

\* ------------------------------------------------------- WebSocketManager
\* texts of inbound frames: the liveness marker, a text that is not JSON, the JSON
\* text null, and a JSON-encoded MessagesDataItem
FrameTexts == {"heartbeat", "not json", "null", "{\"type\":\"text\"}"}

IsHeartbeatMessage_Never(text) == FALSE

\* isHeartbeatMessage(message)
IsHeartbeatMessage(text) == text = "heartbeat"

\* JSON.parse(text): the value, or ok = FALSE where it throws a SyntaxError
JsonParse(text) ==
  CASE text = "null" -> [ok |-> TRUE, value |-> [js |-> "null", type |-> "undefined"]]
    [] text = "{\"type\":\"text\"}" ->
         [ok |-> TRUE, value |-> [js |-> "object", type |-> "text"]]
    [] OTHER -> [ok |-> FALSE, value |-> [js |-> "undefined", type |-> "undefined"]]

\* the MessagesDataItem of a webhook body
WebhookBody == [js |-> "object", type |-> "text"]

\* JSON.stringify(message)
JsonStringify(message) == <<"json", message>>

\* the MessageClient receiveData builds (id and timestamp, a random tag and the
\* clock, are left out); threw: reading message.type of null throws a TypeError
RelayMessage(message, source) ==
  [threw |-> message.js = "null",
   msg |-> [type |-> message.type, data |-> message, source |-> source]]

IsOpen(rs, c) == rs[c] = "OPEN"

Broadcast_NoStateCheck(cl, rs, msg) ==
  [i \in 1..Len(cl) |-> [to |-> cl[i].id, data |-> JsonStringify(msg)]]

\* broadcast(message): the ws.send calls, in Map order
Broadcast(cl, rs, msg) ==
  LET open == SelectSeq(cl, LAMBDA e : IsOpen(rs, e.id))
  IN [i \in 1..Len(open) |-> [to |-> open[i].id, data |-> JsonStringify(msg)]]

\* receiveData(message, source): the sends of its broadcast; none when it throws
ReceiveDataSends(cl, rs, message, source) ==
  LET r == RelayMessage(message, source)
  IN IF r.threw THEN <<>> ELSE Broadcast(cl, rs, r.msg)

ReceiveDataResult_Sent(sends) == Len(sends) > 0

\* receiveData(message, source): its return value
ReceiveDataResult(sends) == FALSE

\* this.clients.delete(c)
Delete(cl, c) == SelectSeq(cl, LAMBDA e : e.id # c)

OnClose_NoDelete(cl, c) == cl

\* ws.on('close'): this.clients.delete(clientId)
OnClose(cl, c) == Delete(cl, c)

\* this.clients.get(clientId)!.lastHeartbeat = new Date(), if the client is tracked
Touch(cl, c) ==
  [i \in 1..Len(cl) |-> IF cl[i].id = c THEN [cl[i] EXCEPT !.lastHeartbeat = 0] ELSE cl[i]]

\* checkConnections: tracked connections found not open
SweepClosed(cl, rs) == {cl[i].id : i \in {j \in 1..Len(cl) : ~IsOpen(rs, cl[j].id)}}

SweepTimedOut_AtThreshold(cl, rs) ==
  {cl[i].id : i \in {j \in 1..Len(cl) :
                       IsOpen(rs, cl[j].id) /\ cl[j].lastHeartbeat >= CONNECTION_TIMEOUT}}

\* checkConnections: open connections past the timeout
SweepTimedOut(cl, rs) ==
  {cl[i].id : i \in {j \in 1..Len(cl) :
                       IsOpen(rs, cl[j].id) /\ cl[j].lastHeartbeat > CONNECTION_TIMEOUT}}

CheckConnections_TerminateClosed(cl, rs) ==
  LET gone == SweepClosed(cl, rs) \cup SweepTimedOut(cl, rs)
  IN [clients |-> SelectSeq(cl, LAMBDA e : e.id \notin gone),
      terminated |-> gone,
      logs |-> {<<"Removing closed connection", c>> : c \in SweepClosed(cl, rs)}
                 \cup {<<"timeout, disconnecting", c>> : c \in SweepTimedOut(cl, rs)}]

\* checkConnections(): what is left of the Map, the sockets terminate() was called
\* on, and the lines logged
CheckConnections(cl, rs) ==
  LET gone == SweepClosed(cl, rs) \cup SweepTimedOut(cl, rs)
  IN [clients |-> SelectSeq(cl, LAMBDA e : e.id \notin gone),
      terminated |-> SweepTimedOut(cl, rs),
      logs |-> {<<"Removing closed connection", c>> : c \in SweepClosed(cl, rs)}
                 \cup {<<"timeout, disconnecting", c>> : c \in SweepTimedOut(cl, rs)}]

\* sendHeartbeat(): one ws.send('heartbeat', cb) per tracked client; the callback of
\* a send on a socket that is not open gets an error
SendHeartbeat(cl, rs) ==
  {[id |-> cl[i].id, mustErr |-> ~IsOpen(rs, cl[i].id)] : i \in 1..Len(cl)}

OnPulseError_Ignored(cl, c) == cl

\* the send callback with an error: this.clients.delete(clientId)
OnPulseError(cl, c) == Delete(cl, c)

\* getConnectedClients(): one entry per Map entry, in Map order (connectedAt, which
\* nothing else reads, is left out)
GetConnectedClients(cl) == [i \in 1..Len(cl) |-> [id |-> cl[i].id]]

\* generateClientId(): a timestamp and a random tag, taken never to repeat; the
\* ids are handed out in the order of ClientIds
GenerateClientId(used) == CHOOSE c \in ClientIds \ used : \A d \in ClientIds \ used : c <= d

\* wss.on('connection'): a socket arrives open and is stored under a new client id
Accept(c) ==
  /\ ~exited
  /\ ~closed
  /\ issued # ClientIds
  /\ c = GenerateClientId(issued)
  /\ clients' = Append(clients, [id |-> c, lastHeartbeat |-> 0])
  /\ readyState' = [readyState EXCEPT ![c] = "OPEN"]
  /\ issued' = issued \cup {c}
  /\ op' = [name |-> "Accept", conn |-> c]
  /\ UNCHANGED linkVars
  /\ UNCHANGED <<closed, exited, wsTimer, pending, pulseCbs>>
  /\ UNCHANGED <<sinceAck, ackFresh, removed, frames, fwdLog, bcastLog>>

Forwards_Unparsed(text) == ~IsHeartbeatMessage(text)

\* ws.on('message'): a frame that is not the marker and that JSON.parse accepts is
\* handed to onSendToOrchestrator (createHumanoidServer always passes one)
Forwards(text) == ~IsHeartbeatMessage(text) /\ JsonParse(text).ok

\* ws.on('message') up to its await: the stamp, the marker test, JSON.parse and the
\* call of onSendToOrchestrator.  frames keeps the frames handed to the forwarder;
\* afterMalformed: the step before dropped a malformed frame of this connection
Message(c, text) ==
  /\ ~exited
  /\ readyState[c] \in {"OPEN", "CLOSING"}
  /\ Forwards(text) => Len(frames) < MaxFrames
  /\ clients' = Touch(clients, c)
  /\ LET fid == Len(frames) + 1
         parsed == JsonParse(text)
         forward == Forwards(text)
     IN /\ frames' = IF forward
                     THEN Append(frames, [conn |-> c, text |-> text, fwd |-> "pending"])
                     ELSE frames
        /\ pending' = IF forward THEN pending \cup {[fid |-> fid, data |-> parsed.value]}
                      ELSE pending
        /\ fwdLog' = IF forward THEN Append(fwdLog, fid) ELSE fwdLog
        /\ op' = [name |-> "Message", conn |-> c, text |-> text,
                  fid |-> IF forward THEN fid ELSE 0,
                  tracked |-> c \in IdSet(clients),
                  afterMalformed |-> /\ forward
                                     /\ op.name = "Message"
                                     /\ op.conn = c
                                     /\ op.logs = {<<"Error processing message", c>>},
                  logs |-> IF IsHeartbeatMessage(text) THEN {<<"Received heartbeat", c>>}
                           ELSE IF ~parsed.ok THEN {<<"Error processing message", c>>}
                           ELSE {},
                  sends |-> <<>>]
  /\ UNCHANGED linkVars
  /\ UNCHANGED <<closed, exited, wsTimer, readyState, pulseCbs>>
  /\ UNCHANGED <<sinceAck, ackFresh, issued, removed, bcastLog>>

\* the forwarder's promise settles (ok: axios resolved, ~ok: it rejected) and the
\* handler resumes: if (success) this.receiveData(parsedData, 'pilot'), inside the try
ForwardDone(p, ok) ==
  /\ ~exited
  /\ p \in pending
  /\ pending' = pending \ {p}
  /\ LET r == RelayMessage(p.data, "pilot")
         sends == IF ok THEN ReceiveDataSends(clients, readyState, p.data, "pilot")
                  ELSE <<>>
         did == ok /\ ~r.threw
     IN /\ bcastLog' = IF did THEN Append(bcastLog, p.fid) ELSE bcastLog
        /\ op' = [name |-> "ForwardDone", fid |-> p.fid, ok |-> ok, bcast |-> did,
                  msg |-> r.msg, sends |-> sends,
                  logs |-> IF ok /\ r.threw
                           THEN {<<"Error processing message", frames[p.fid].conn>>}
                           ELSE {}]
  /\ frames' = [frames EXCEPT ![p.fid].fwd = IF ok THEN "ok" ELSE "failed"]
  /\ UNCHANGED linkVars
  /\ UNCHANGED <<closed, exited, wsTimer, clients, readyState, pulseCbs>>
  /\ UNCHANGED <<sinceAck, ackFresh, issued, removed, fwdLog>>

\* receiveData(body, 'humanoid'), as the webhook route calls it
ReceiveData ==
  /\ ~exited
  /\ LET r == RelayMessage(WebhookBody, "humanoid")
         sends == ReceiveDataSends(clients, readyState, WebhookBody, "humanoid")
     IN op' = [name |-> "ReceiveData", bcast |-> ~r.threw, msg |-> r.msg,
               sends |-> sends, result |-> ReceiveDataResult(sends)]
  /\ UNCHANGED linkVars
  /\ UNCHANGED <<closed, exited, wsTimer>>
  /\ UNCHANGED wsVars
  /\ UNCHANGED histVars

\* the transport starts to close (a close frame was received or sent, or the
\* socket failed): readyState leaves OPEN before the 'close' event is emitted
TransportClosing(c) ==
  /\ ~exited
  /\ readyState[c] = "OPEN"
  /\ readyState' = [readyState EXCEPT ![c] = "CLOSING"]
  /\ op' = [name |-> "TransportClosing", conn |-> c]
  /\ UNCHANGED linkVars
  /\ UNCHANGED <<closed, exited, wsTimer, clients, pending, pulseCbs>>
  /\ UNCHANGED histVars

\* the socket fails and emits 'error': ws.on('error') logs it; the socket is on its
\* way to closed (the 'close' event is a later step)
ErrorEvent(c) ==
  /\ ~exited
  /\ readyState[c] \in {"OPEN", "CLOSING"}
  /\ readyState' = [readyState EXCEPT ![c] = "CLOSING"]
  /\ op' = [name |-> "ErrorEvent", conn |-> c, tracked |-> c \in IdSet(clients),
            logs |-> {<<"WebSocket error", c>>}, sends |-> <<>>]
  /\ UNCHANGED linkVars
  /\ UNCHANGED <<closed, exited, wsTimer, clients, pending, pulseCbs>>
  /\ UNCHANGED histVars

\* the socket has closed: readyState = CLOSED and the 'close' handler runs
CloseEvent(c) ==
  /\ ~exited
  /\ readyState[c] \in {"OPEN", "CLOSING"}
  /\ readyState' = [readyState EXCEPT ![c] = "CLOSED"]
  /\ clients' = OnClose(clients, c)
  /\ removed' = removed \cup ({c} \cap IdSet(clients))
  /\ op' = [name |-> "CloseEvent", conn |-> c, logs |-> {<<"disconnected", c>>}]
  /\ UNCHANGED linkVars
  /\ UNCHANGED <<closed, exited, wsTimer, pending, pulseCbs>>
  /\ UNCHANGED <<sinceAck, ackFresh, issued, frames, fwdLog, bcastLog>>

\* the setInterval callback: checkConnections(), then sendHeartbeat()
WsTick ==
  /\ ~exited
  /\ wsTimer = 0
  /\ wsTimer' = WS_HEARTBEAT_INTERVAL
  /\ LET swept == CheckConnections(clients, readyState)
         rs == [c \in ClientIds |->
                  IF c \in swept.terminated THEN "CLOSING" ELSE readyState[c]]
     IN /\ clients' = swept.clients
        /\ readyState' = rs
        /\ pulseCbs' = pulseCbs \cup SendHeartbeat(swept.clients, rs)
        /\ removed' = removed \cup
                        {clients[i].id : i \in {j \in 1..Len(clients) :
                           \/ readyState[clients[j].id] # "OPEN"
                           \/ clients[j].lastHeartbeat > CONNECTION_TIMEOUT}}
        /\ op' = [name |-> "WsTick", terminated |-> swept.terminated,
                  logs |-> swept.logs, pulsed |-> Ids(swept.clients)]
  /\ UNCHANGED linkVars
  /\ UNCHANGED <<closed, exited, pending>>
  /\ UNCHANGED <<sinceAck, ackFresh, issued, frames, fwdLog, bcastLog>>

\* the callback of a ws.send('heartbeat', cb): if (err) this.clients.delete(clientId)
PulseCallback(cb, err) ==
  /\ ~exited
  /\ cb \in pulseCbs
  /\ cb.mustErr => err
  /\ pulseCbs' = pulseCbs \ {cb}
  /\ clients' = IF err THEN OnPulseError(clients, cb.id) ELSE clients
  /\ removed' = IF err THEN removed \cup ({cb.id} \cap IdSet(clients)) ELSE removed
  /\ op' = [name |-> "PulseCallback", conn |-> cb.id, err |-> err,
            logs |-> IF err THEN {<<"heartbeat error", cb.id>>} ELSE {}]
  /\ UNCHANGED linkVars
  /\ UNCHANGED <<closed, exited, wsTimer, readyState, pending>>
  /\ UNCHANGED <<sinceAck, ackFresh, issued, frames, fwdLog, bcastLog>>

NextLink ==
  \/ Listen
  \/ \E s \in Slots : LinkTick(s)
  \/ \E s \in Slots, ok \in BOOLEAN : LinkCallDone(s, ok)
  \/ WebhookRegistered
  \/ WsTick
  \/ Close
  \/ ProcessExit
  \/ Advance

SpecLink == Init /\ [][NextLink]_vars

\* the connection registry over time: connections come and go, peers send the
\* liveness marker and frames that are dropped, the sweep/pulse interval fires
NextWs ==
  \/ \E c \in ClientIds : Accept(c)
  \/ \E c \in ClientIds, text \in {"heartbeat", "not json"} : Message(c, text)
  \/ \E c \in ClientIds : TransportClosing(c)
  \/ \E c \in ClientIds : ErrorEvent(c)
  \/ \E c \in ClientIds : CloseEvent(c)
  \/ WsTick
  \/ \E cb \in pulseCbs, err \in BOOLEAN : PulseCallback(cb, err)
  \/ Close
  \/ ProcessExit
  \/ Advance

SpecWs == Init /\ [][NextWs]_vars

\* the relay: data frames of every kind arrive, forwards settle in any order, the
\* webhook hands data in, connections come and go (no step of it reads the clock;
\* the marker, which never reaches the relay, arrives in SpecWs)
NextRelay ==
  \/ \E c \in ClientIds : Accept(c)
  \/ \E c \in ClientIds, text \in FrameTexts \ {"heartbeat"} : Message(c, text)
  \/ \E p \in pending, ok \in BOOLEAN : ForwardDone(p, ok)
  \/ ReceiveData
  \/ \E c \in ClientIds : TransportClosing(c)
  \/ \E c \in ClientIds : CloseEvent(c)
  \/ Close
  \/ ProcessExit

SpecRelay == Init /\ [][NextRelay]_vars

\* timers fire, calls settle (axios rejects at its timeout at the latest), time passes
FairLink ==
  /\ SpecLink
  /\ WF_vars(Advance)
  /\ WF_vars(WsTick)
  /\ \A s \in Slots : WF_vars(LinkTick(s))
  /\ \A s \in Slots : WF_vars(\E ok \in BOOLEAN : LinkCallDone(s, ok))

\* ------------------------------------------------------------------ claims
\* C1: the link goes from Unregistered to Registered only in the step that handles
\* the cmd=registered webhook: no tick and no completion of a register or
\* heartbeat call, successful or not, makes that change.
C1_OnlyAckRegisters ==
  [][(~isRegistered /\ isRegistered') => op'.name = "WebhookRegistered"]_vars

\* a register call has resolved and the link is still Unregistered
C1_Witness ==
  op.name = "LinkCallDone" /\ op.type = "register" /\ op.ok /\ ~isRegistered

\* C2 (as claimed): the acknowledgment sets Registered and stamps lastHeartbeatTime
\* with the time of the acknowledgment, and so the first tick after an
\* acknowledgment less than 3H old sends a heartbeat and stays Registered.
C2_AckStampsAndHolds ==
  /\ op.name = "WebhookRegistered" => isRegistered /\ lastHeartbeatAge = 0
  /\ (op.name = "LinkTick" /\ op.ack >= 0 /\ op.ack < STALE)
        => isRegistered /\ op.type = "heartbeat"

C4_TicksForever ==
  /\ []<>(~listening \/ closed \/ op.name = "LinkTick")
  /\ [][op'.name = "LinkCallDone"
          => timers'[op'.slot] = Waiting(HEARTBEAT_INTERVAL)]_vars

\* a call was rejected and the next tick is armed
C4_Witness ==
  op.name = "LinkCallDone" /\ ~op.ok /\ ~closed /\ timers[op.slot].st = "wait"

\* C5 (as claimed): once close() has been called no orchestrator-link tick runs (so
\* no register or heartbeat call is started) and no sweep/pulse tick runs.
C5_NoTickAfterClose == closed => op.name \notin {"LinkTick", "WsTick"}

\* how often x occurs in seq, and where it occurs first
Count(seq, x) == Cardinality({i \in DOMAIN seq : seq[i] = x})

Pos(seq, x) == CHOOSE i \in DOMAIN seq : seq[i] = x /\ \A j \in 1..(i - 1) : seq[j] # x

\* C6: list() returns exactly the connections accepted and not since removed by a
\* close event, a sweep, a failed pulse send or close(), each once.
C6_ListIsAcceptedNotRemoved ==
  LET list == GetConnectedClients(clients)
      ids == {list[i].id : i \in 1..Len(list)}
  IN /\ ids = issued \ removed
     /\ Cardinality(ids) = Len(list)

\* a sweep has run, some connection has been removed and another is still listed
C6_Witness ==
  op.name = "WsTick" /\ removed # {} /\ Len(GetConnectedClients(clients)) > 0

\* C7: a broadcast sends the one serialized payload exactly once to every tracked
\* connection whose socket is open at the call and nothing to any other socket.
C7_BroadcastToOpenOnly ==
  (op.name \in {"ForwardDone", "ReceiveData"} /\ op.bcast)
    => /\ \A c \in ClientIds :
            Cardinality({i \in 1..Len(op.sends) : op.sends[i].to = c})
              = IF c \in IdSet(clients) /\ readyState[c] = "OPEN" THEN 1 ELSE 0
       /\ \A i \in 1..Len(op.sends) : op.sends[i].data = JsonStringify(op.msg)

\* a broadcast with two connections tracked, one of them not open: one send
C7_Witness ==
  /\ op.name \in {"ForwardDone", "ReceiveData"}
  /\ op.bcast
  /\ Len(clients) = 2
  /\ Len(op.sends) = 1

\* C8 (as claimed): every inbound frame that is not the marker and is well-formed
\* JSON is handed to the forwarder exactly once, and its RelayMessage is broadcast
\* (once) if and only if that forward reported success.
C8_ForwardOnceBroadcastIffSuccess ==
  \A fid \in 1..Len(frames) :
    (~IsHeartbeatMessage(frames[fid].text) /\ JsonParse(frames[fid].text).ok)
      => /\ Count(fwdLog, fid) = 1
         /\ Count(bcastLog, fid) = IF frames[fid].fwd = "ok" THEN 1 ELSE 0

\* C9 (as claimed): two frames of one connection are forwarded in arrival order
\* and, when both forwards succeed, broadcast in arrival order.
C9_ArrivalOrder ==
  \A f1, f2 \in 1..Len(frames) :
    (f1 < f2 /\ frames[f1].conn = frames[f2].conn)
      => /\ (Count(fwdLog, f1) > 0 /\ Count(fwdLog, f2) > 0)
              => Pos(fwdLog, f1) < Pos(fwdLog, f2)
         /\ (Count(bcastLog, f1) > 0 /\ Count(bcastLog, f2) > 0)
              => Pos(bcastLog, f1) < Pos(bcastLog, f2)

\* C10: a sweep tick removes every tracked connection it finds not open, logs the
\* removal and does not call terminate() on it; list() no longer returns it.
C10_SweepRemovesClosed ==
  [][op'.name = "WsTick"
       => \A c \in IdSet(clients) :
            readyState[c] # "OPEN"
              => /\ c \notin IdSet(clients')
                 /\ \A i \in 1..Len(clients') : GetConnectedClients(clients')[i].id # c
                 /\ <<"Removing closed connection", c>> \in op'.logs
                 /\ c \notin op'.terminated]_vars

\* a sweep tick has removed a connection that was not open
C10_Witness ==
  /\ op.name = "WsTick"
  /\ \E c \in ClientIds : /\ <<"Removing closed connection", c>> \in op.logs
                           /\ c \notin IdSet(clients)

\* time since the last frame of tracked connection c (since accept, if none came)
LastHeartbeat(cl, c) == cl[CHOOSE i \in 1..Len(cl) : cl[i].id = c].lastHeartbeat

\* C11: a sweep tick terminates and removes a tracked open connection exactly when
\* more than CONNECTION_TIMEOUT (two sweep intervals) has passed since its last
\* inbound frame, and every inbound frame, marker or data, of a tracked connection
\* resets that time; so a connection with a frame in the last two sweep intervals
\* is not removed for timeout.
C11_TimeoutSweep ==
  [][/\ op'.name = "WsTick"
          => \A c \in IdSet(clients) :
               readyState[c] = "OPEN"
                 => /\ (c \in op'.terminated) = (LastHeartbeat(clients, c) > CONNECTION_TIMEOUT)
                    /\ (c \notin IdSet(clients')) = (LastHeartbeat(clients, c) > CONNECTION_TIMEOUT)
                    /\ (LastHeartbeat(clients, c) > CONNECTION_TIMEOUT)
                          => <<"timeout, disconnecting", c>> \in op'.logs
     /\ (op'.name = "Message" /\ op'.conn \in IdSet(clients))
          => /\ op'.conn \in IdSet(clients')
             /\ LastHeartbeat(clients', op'.conn) = 0]_vars

\* a sweep tick has terminated a silent connection and kept an open one whose last
\* activity was exactly two sweep intervals before
C11_Witness ==
  /\ op.name = "WsTick"
  /\ op.terminated # {}
  /\ \E c \in IdSet(clients) : /\ LastHeartbeat(clients, c) = CONNECTION_TIMEOUT
                                 /\ readyState[c] = "OPEN"

\* a frame that is neither the marker nor JSON
Malformed(text) == ~IsHeartbeatMessage(text) /\ ~JsonParse(text).ok

\* C12: a malformed frame is logged as an error and dropped: no forwarder call, no
\* broadcast, the connection stays tracked and nothing but its lastHeartbeat
\* changes; a valid frame, also directly after a malformed one of the same
\* connection, is handed to the forwarder once and broadcast when the forward
\* succeeds.
C12_MalformedDropped ==
  [][/\ (op'.name = "Message" /\ Malformed(op'.text))
          => /\ op'.logs = {<<"Error processing message", op'.conn>>}
             /\ op'.sends = <<>>
             /\ Ids(clients') = Ids(clients)
             /\ UNCHANGED <<readyState, pending, frames, fwdLog, bcastLog>>
     /\ (op'.name = "Message" /\ op'.text = "{\"type\":\"text\"}")
          => /\ op'.logs = {}
             /\ fwdLog' = Append(fwdLog, op'.fid)
             /\ Count(fwdLog, op'.fid) = 0
             /\ \E p \in pending' \ pending :
                   /\ p.fid = op'.fid
                   /\ p.data = JsonParse(op'.text).value
                   /\ pending' = pending \cup {p}
     /\ (op'.name = "ForwardDone" /\ frames[op'.fid].text = "{\"type\":\"text\"}")
          => /\ op'.bcast = op'.ok
             /\ bcastLog' = IF op'.ok THEN Append(bcastLog, op'.fid) ELSE bcastLog]_vars

\* a valid frame, arriving directly after a malformed frame of the same connection
\* was dropped, has been handed to the forwarder
C12_Witness ==
  /\ op.name = "Message"
  /\ op.afterMalformed
  /\ op.text = "{\"type\":\"text\"}"
  /\ op.conn \in IdSet(clients)
  /\ \E p \in pending : p.fid = op.fid

\* C13: close() stops the sweep/pulse timer, calls ws.close() on exactly the
\* tracked connections whose socket is open and empties the registry, so that
\* list() is empty from then on and no sweep/pulse tick runs; it does so with no
\* connection tracked as well, and a second close() changes nothing.
C13_CloseEmptiesRegistry ==
  /\ [](closed => /\ GetConnectedClients(clients) = <<>>
                  /\ wsTimer = -1
                  /\ op.name # "WsTick")
  /\ [][op'.name = "Close"
          => /\ op'.closedSockets = {c \in IdSet(clients) : readyState[c] = "OPEN"}
             /\ \A c \in ClientIds :
                   readyState'[c] = IF c \in op'.closedSockets THEN "CLOSING"
                                    ELSE readyState[c]
             /\ clients' = <<>>
             /\ wsTimer' = -1
             /\ op'.again => /\ op'.closedSockets = {}
                             /\ UNCHANGED <<clients, readyState, wsTimer, pulseCbs>>]_vars

\* close() has been called a second time, after a first close() that closed the
\* socket of a tracked connection
C13_Witness ==
  /\ op.name = "Close"
  /\ op.again
  /\ \E c \in removed : readyState[c] = "CLOSING"
  /\ GetConnectedClients(clients) = <<>>

\* C14: receiveData(message, source), called by the webhook route with a
\* MessagesDataItem, builds the MessageClient with that source and the item's type
\* and data, sends it at once to every tracked open connection and to no other,
\* changes no state, and returns false whether or not anything was sent; the
\* message it broadcasts for a forwarded frame carries the source pilot.
C14_ReceiveDataReturnsFalse ==
  [][/\ op'.name = "ReceiveData"
          => /\ op'.bcast
             /\ op'.msg = [type |-> WebhookBody.type, data |-> WebhookBody,
                           source |-> "humanoid"]
             /\ \A c \in ClientIds :
                   Cardinality({i \in 1..Len(op'.sends) : op'.sends[i].to = c})
                     = IF c \in IdSet(clients) /\ readyState[c] = "OPEN" THEN 1 ELSE 0
             /\ \A i \in 1..Len(op'.sends) : op'.sends[i].data = JsonStringify(op'.msg)
             /\ op'.result = FALSE
             /\ UNCHANGED <<clients, readyState, pending, frames, fwdLog, bcastLog>>
     /\ (op'.name = "ForwardDone" /\ op'.bcast)
          => /\ op'.msg.source = "pilot"
             /\ op'.msg.data = JsonParse(frames[op'.fid].text).value]_vars

\* the webhook's receiveData has sent the message to an open connection, with
\* another connection tracked and not open, and has returned false
C14_Witness ==
  /\ op.name = "ReceiveData"
  /\ Len(op.sends) = 1
  /\ Len(clients) = 2
  /\ op.result = FALSE

\* C15 (as claimed): after an error event on a tracked connection the connection
\* is no longer tracked, and the event has started no call to the orchestrator and
\* sent no frame to a peer.
C15_ErrorRemoves ==
  (op.name = "ErrorEvent" /\ op.tracked)
    => /\ op.conn \notin IdSet(clients)
       /\ op.sends = <<>>
       /\ pending = {}

\* C16 (as claimed): a frame is handed on to the orchestrator (a publish call is
\* issued) only while the link is Registered.
C16_ForwardOnlyRegistered ==
  (op.name = "Message" /\ \E p \in pending : p.fid = op.fid) => isRegistered

\* C17 (as claimed): a frame that arrives on a connection that is no longer
\* tracked is a no-op: it is not handed to the forwarder (no publish call is
\* pending for it).
C17_UntrackedFrameNoOp ==
  (op.name = "Message" /\ ~op.tracked)
    => /\ op.fid = 0
       /\ \A p \in pending : frames[p.fid] # [conn |-> op.conn, text |-> op.text,
                                                fwd |-> "pending"]

\* C18: a frame whose text is the liveness marker is consumed silently: it stamps
\* lastHeartbeat of its connection if that is tracked, and it is not parsed (no
\* parse error is logged), not handed to the forwarder and not broadcast.
C18_MarkerConsumed ==
  [][(op'.name = "Message" /\ op'.text = "heartbeat")
       => /\ op'.logs = {<<"Received heartbeat", op'.conn>>}
          /\ op'.fid = 0
          /\ op'.sends = <<>>
          /\ UNCHANGED <<pending, frames, fwdLog, bcastLog, readyState>>
          /\ Ids(clients') = Ids(clients)
          /\ op'.conn \in IdSet(clients) => LastHeartbeat(clients', op'.conn) = 0]_vars

\* the marker has arrived on a tracked connection, some time after another
\* connection was last heard of
C18_Witness ==
  /\ op.name = "Message"
  /\ op.text = "heartbeat"
  /\ op.conn \in IdSet(clients)
  /\ LastHeartbeat(clients, op.conn) = 0
  /\ \E c \in IdSet(clients) : LastHeartbeat(clients, c) > 0

\* C19: a sweep/pulse tick sends the marker once to every connection that is
\* tracked after the tick's sweep, and these are the tracked connections that were
\* open and not timed out, so none that is not open; a send callback that reports
\* an error removes its connection in that step, before the next tick, and removes
\* no other; a callback without error removes none.
C19_PulseAfterSweep ==
  [][/\ op'.name = "WsTick"
          => /\ {op'.pulsed[i] : i \in 1..Len(op'.pulsed)}
                  = {c \in IdSet(clients) :
                       /\ readyState[c] = "OPEN"
                       /\ LastHeartbeat(clients, c) <= CONNECTION_TIMEOUT}
             /\ \A c \in IdSet(clients) : Count(op'.pulsed, c) <= 1
             /\ op'.pulsed = Ids(clients')
             /\ \A i \in 1..Len(op'.pulsed) : readyState'[op'.pulsed[i]] = "OPEN"
             /\ {cb.id : cb \in pulseCbs' \ pulseCbs} = IdSet(clients')
     /\ op'.name = "PulseCallback"
          => /\ IdSet(clients') = IF op'.err THEN IdSet(clients) \ {op'.conn}
                                   ELSE IdSet(clients)
             /\ wsTimer' = wsTimer]_vars

\* a pulse send has failed for one of two tracked connections: it is gone before
\* the next tick and the other is still tracked
C19_Witness ==
  /\ op.name = "PulseCallback"
  /\ op.err
  /\ op.conn \in removed
  /\ op.conn \notin IdSet(clients)
  /\ Len(clients) = 1
  /\ wsTimer > 0

\* C20 (as claimed): at every moment at most one register or heartbeat call is
\* outstanding and at most one link timer is pending, and no timer is pending
\* while a call is outstanding, also when listen() is invoked again.
C20_OneCallOneTimer ==
  LET calls == {s \in Slots : timers[s].st = "call"}
      waits == {s \in Slots : timers[s].st = "wait"}
  IN /\ Cardinality(calls) <= 1
     /\ Cardinality(waits) <= 1
     /\ calls = {} \/ waits = {}

\* C21: every link tick starts exactly one call, chosen by the state after the
\* staleness check: heartbeat if Registered, register if Unregistered, so that a
\* tick that drops the link for staleness sends register and no heartbeat is sent
\* while Unregistered; lastHeartbeatTime is stamped only when a heartbeat call
\* resolves, and a call that fails, or a register call however it ends, leaves
\* isRegistered and lastHeartbeatTime as they were.
C21_OneCallPerTick ==
  [][/\ op'.name = "LinkTick"
          => /\ isRegistered' = (isRegistered /\ ~(lastHeartbeatAge > STALE))
             /\ op'.type = IF isRegistered' THEN "heartbeat" ELSE "register"
             /\ timers[op'.slot].st = "wait"
             /\ timers'[op'.slot] = InFlight(op'.type)
             /\ \A s \in Slots \ {op'.slot} : timers'[s] = timers[s]
             /\ lastHeartbeatAge' = lastHeartbeatAge
     /\ lastHeartbeatAge' # lastHeartbeatAge
          => \/ op'.name = "Advance"
             \/ /\ op'.name = "LinkCallDone"
                /\ op'.type = "heartbeat"
                /\ op'.ok
                /\ lastHeartbeatAge' = 0
     /\ (op'.name = "LinkCallDone" /\ op'.type = "heartbeat" /\ op'.ok)
          => lastHeartbeatAge' = 0
     /\ (op'.name = "LinkCallDone" /\ (~op'.ok \/ op'.type = "register"))
          => UNCHANGED <<isRegistered, lastHeartbeatAge>>]_vars

\* a heartbeat call has failed: the link is still Registered and the stamp, taken
\* some time before, is as it was
C21_Witness ==
  /\ op.name = "LinkCallDone"
  /\ op.type = "heartbeat"
  /\ ~op.ok
  /\ isRegistered
  /\ lastHeartbeatAge > 0

====
